---- MODULE Spec2Model ----
(***************************************************************************)
(* Lexer and Pratt parser of the monkey interpreter front end.             *)
(* Source text is a sequence of bytes (0..255); a token literal is the     *)
(* byte sequence of a Go string.  The lexer is driven on its own by        *)
(* LexSpec, the parser (which pulls tokens from the lexer) by ParseSpec.   *)
(***************************************************************************)
EXTENDS Integers, Sequences, FiniteSets, TLC

VARIABLES l, tok, tokStart, curToken, peekToken, errors, program, stmt, pc

vars == <<l, tok, tokStart, curToken, peekToken, errors, program, stmt, pc>>

(* ---------------------------- bounds ---------------------------------- *)
\* longest source text handed to the lexer on its own
MaxLen == 3
\* how many characters past the end of the input the cursor may be driven
MaxPastEnd == 4
\* how many statements a generated program has at most
MaxStmts == 2

(* --------------------------- token kinds ------------------------------ *)
ILLEGAL == "ILLEGAL"
EOF == "EOF"
IDENT == "IDENT"
INT == "INT"
ASSIGN == "="
PLUS == "+"
MINUS == "-"
BANG == "!"
ASTERISK == "*"
SLASH == "/"
LT == "<"
GT == ">"
COMMA == ","
SEMICOLON == ";"
LPAREN == "("
RPAREN == ")"
LBRACE == "{"
RBRACE == "}"
FUNCTION == "FUNCTION"
LET_ == "LET"
TRUE_ == "TRUE"
FALSE_ == "FALSE"
IF_ == "IF"
ELSE_ == "ELSE"
RETURN == "RETURN"
EQ == "EQ"
NOT_EQ == "NOT_EQ"

\* the zero value of token.Token
ZeroToken == [Type |-> "", Literal |-> <<>>]

\* keywords, keyed by the bytes of the word
keywords ==
  [w \in { <<102,110>>, <<108,101,116>>, <<116,114,117,101>>,
           <<102,97,108,115,101>>, <<105,102>>, <<101,108,115,101>>,
           <<114,101,116,117,114,110>> } |->
     CASE w = <<102,110>> -> FUNCTION
       [] w = <<108,101,116>> -> LET_
       [] w = <<116,114,117,101>> -> TRUE_
       [] w = <<102,97,108,115,101>> -> FALSE_
       [] w = <<105,102>> -> IF_
       [] w = <<101,108,115,101>> -> ELSE_
       [] w = <<114,101,116,117,114,110>> -> RETURN]

LookupIdent(ident) ==
  IF ident \in DOMAIN keywords THEN keywords[ident] ELSE IDENT

(* ------------------------------ lexer --------------------------------- *)
\* LET v == e IN F(v), with e evaluated once and v bound to its value
Let(e, F(_)) == CHOOSE r \in { F(v) : v \in {e} } : TRUE

\* Go's string(ch) for a byte ch: the UTF-8 encoding of the code point ch
StringOfByte(ch) ==
  IF ch < 128 THEN <<ch>> ELSE <<192 + (ch \div 64), 128 + (ch % 64)>>

\* l.input[i] with Go's bounds check: an index outside 0..len-1 panics
InRange(lx, i) == i >= 0 /\ i < Len(lx.input)

\* mutation: readPosition is advanced before position is set from it
readChar_Swapped(lx0) ==
  Let(lx0, LAMBDA lx :
    IF lx.readPosition >= Len(lx.input)
      THEN [lx EXCEPT !.ch = 0,
                      !.position = lx.readPosition + 1,
                      !.readPosition = lx.readPosition + 1]
      ELSE IF InRange(lx, lx.readPosition)
        THEN [lx EXCEPT !.ch = lx.input[lx.readPosition + 1],
                        !.position = lx.readPosition + 1,
                        !.readPosition = lx.readPosition + 1]
        ELSE [lx EXCEPT !.panicked = TRUE])

\* mutation: the end-of-input test compares with == instead of >=
readChar_Eq(lx0) ==
  Let(lx0, LAMBDA lx :
    IF lx.readPosition = Len(lx.input)
      THEN [lx EXCEPT !.ch = 0,
                      !.position = lx.readPosition,
                      !.readPosition = lx.readPosition + 1]
      ELSE IF InRange(lx, lx.readPosition)
        THEN [lx EXCEPT !.ch = lx.input[lx.readPosition + 1],
                        !.position = lx.readPosition,
                        !.readPosition = lx.readPosition + 1]
        ELSE [lx EXCEPT !.panicked = TRUE])

readChar(lx0) ==
  Let(lx0, LAMBDA lx :
    IF lx.readPosition >= Len(lx.input)
      THEN [lx EXCEPT !.ch = 0,
                      !.position = lx.readPosition,
                      !.readPosition = lx.readPosition + 1]
      ELSE IF InRange(lx, lx.readPosition)
        THEN [lx EXCEPT !.ch = lx.input[lx.readPosition + 1],
                        !.position = lx.readPosition,
                        !.readPosition = lx.readPosition + 1]
        ELSE [lx EXCEPT !.panicked = TRUE])

New(input) ==
  readChar([input |-> input, position |-> 0, readPosition |-> 0, ch |-> 0,
            panicked |-> FALSE])

\* mutation: looks at position instead of readPosition
peekChar_Current(lx) ==
  IF lx.position >= Len(lx.input) THEN 0
  ELSE IF InRange(lx, lx.position) THEN lx.input[lx.position + 1]
  ELSE 0

peekChar(lx) ==
  IF lx.readPosition >= Len(lx.input) THEN 0
  ELSE IF InRange(lx, lx.readPosition) THEN lx.input[lx.readPosition + 1]
  ELSE 0

isLetter(ch) ==
  (97 <= ch /\ ch <= 122) \/ (65 <= ch /\ ch <= 90) \/ ch = 95

isDigit(ch) == 48 <= ch /\ ch <= 57

isSpace(ch) == ch = 32 \/ ch = 9 \/ ch = 10 \/ ch = 13

RECURSIVE skipWhitespace(_)
skipWhitespace(lx0) ==
  Let(lx0, LAMBDA lx :
    IF isSpace(lx.ch) /\ ~lx.panicked THEN skipWhitespace(readChar(lx)) ELSE lx)

RECURSIVE readWhileLetter(_)
readWhileLetter(lx0) ==
  Let(lx0, LAMBDA lx :
    IF isLetter(lx.ch) /\ ~lx.panicked THEN readWhileLetter(readChar(lx)) ELSE lx)

RECURSIVE readWhileDigit(_)
readWhileDigit(lx0) ==
  Let(lx0, LAMBDA lx :
    IF isDigit(lx.ch) /\ ~lx.panicked THEN readWhileDigit(readChar(lx)) ELSE lx)

\* l.input[from:to]
Slice(input, from, to) == SubSeq(input, from + 1, to)

\* both return the lexer after the run and the substring spanned
readIdentifier(lx) ==
  Let(readWhileLetter(lx), LAMBDA after :
    [l |-> after, s |-> Slice(lx.input, lx.position, after.position)])

readNumber(lx) ==
  Let(readWhileDigit(lx), LAMBDA after :
    [l |-> after, s |-> Slice(lx.input, lx.position, after.position)])

newToken(tokenType, ch) == [Type |-> tokenType, Literal |-> StringOfByte(ch)]

\* the kind of a character that is a token on its own
SingleCharKind(ch) ==
  CASE ch = 43 -> PLUS
    [] ch = 45 -> MINUS
    [] ch = 47 -> SLASH
    [] ch = 42 -> ASTERISK
    [] ch = 60 -> LT
    [] ch = 62 -> GT
    [] ch = 59 -> SEMICOLON
    [] ch = 44 -> COMMA
    [] ch = 40 -> LPAREN
    [] ch = 41 -> RPAREN
    [] ch = 123 -> LBRACE
    [] ch = 125 -> RBRACE
    [] OTHER -> ILLEGAL

SingleChars == {43, 45, 47, 42, 60, 62, 59, 44, 40, 41, 123, 125}

\* the two-character branch shared by '=' (EQ) and '!' (NOT_EQ)
TwoCharOrOne(s, two, one) ==
  IF peekChar(s) = 61
    THEN Let(readChar(s), LAMBDA r :
           [l |-> readChar(r),
            tok |-> [Type |-> two,
                     Literal |-> StringOfByte(s.ch) \o StringOfByte(r.ch)]])
    ELSE [l |-> readChar(s), tok |-> newToken(one, s.ch)]

\* the switch of NextToken on the lexer s left by skipWhitespace, up to and
\* including the final readChar (or the early return)
SwitchOnChar(s) ==
  CASE s.ch = 61 -> TwoCharOrOne(s, EQ, ASSIGN)
    [] s.ch = 33 -> TwoCharOrOne(s, NOT_EQ, BANG)
    [] s.ch \in SingleChars ->
         [l |-> readChar(s), tok |-> newToken(SingleCharKind(s.ch), s.ch)]
    [] s.ch = 0 ->
         [l |-> readChar(s), tok |-> [Type |-> EOF, Literal |-> <<>>]]
    [] OTHER ->
         IF isLetter(s.ch)
           THEN Let(readIdentifier(s), LAMBDA id :
                  [l |-> id.l,
                   tok |-> [Type |-> LookupIdent(id.s), Literal |-> id.s]])
         ELSE IF isDigit(s.ch)
           THEN Let(readNumber(s), LAMBDA n :
                  [l |-> n.l, tok |-> [Type |-> INT, Literal |-> n.s]])
         ELSE [l |-> readChar(s), tok |-> newToken(ILLEGAL, s.ch)]

\* NextToken: the lexer after the call, the token returned, and the position
\* the token started at (the cursor after skipWhitespace)
NextToken(lx) ==
  Let(skipWhitespace(lx), LAMBDA s :
    Let(SwitchOnChar(s), LAMBDA r :
      [l |-> r.l, tok |-> r.tok, start |-> s.position]))

(* ------------------------------ parser -------------------------------- *)
LOWEST == 1
EQUALS == 2
LESSGREATER == 3
SUM == 4
PRODUCT == 5
PREFIX == 6
CALL == 7

precedences ==
  [t \in {EQ, NOT_EQ, LT, GT, PLUS, MINUS, SLASH, ASTERISK} |->
     CASE t \in {EQ, NOT_EQ} -> EQUALS
       [] t \in {LT, GT} -> LESSGREATER
       [] t \in {PLUS, MINUS} -> SUM
       [] t \in {SLASH, ASTERISK} -> PRODUCT]

\* the registries filled by New: token kind -> name of the parse function
prefixParseFns ==
  [t \in {IDENT, INT, BANG, MINUS} |->
     CASE t = IDENT -> "parseIdentifier"
       [] t = INT -> "parseIntegerLiteral"
       [] t \in {BANG, MINUS} -> "parsePrefixExpression"]

infixParseFns ==
  [t \in {PLUS, MINUS, SLASH, ASTERISK, EQ, NOT_EQ, LT, GT} |->
     "parseInfixExpression"]

\* a nil interface value (ast.Expression or ast.Statement)
NilInterface == [kind |-> "nil"]
\* a nil *ast.LetStatement stored in an ast.Statement: the interface is not nil
NilLetStatement == [kind |-> "LetStatement", nilptr |-> TRUE]

nextToken(p0) ==
  Let(p0, LAMBDA p :
    Let(NextToken(p.l), LAMBDA r :
      [p EXCEPT !.curToken = p.peekToken, !.peekToken = r.tok, !.l = r.l]))

curTokenIs(p, t) == p.curToken.Type = t

peekTokenIs(p, t) == p.peekToken.Type = t

peekError(p, t) ==
  [p EXCEPT !.errors =
     Append(p.errors,
            <<"expected next token to be ", t, ", got ", p.peekToken.Type, " instead">>)]

\* mutation: a mismatch is not recorded (no peekError call)
expectPeek_Silent(p0, t) ==
  Let(p0, LAMBDA p :
    IF peekTokenIs(p, t)
      THEN [p |-> nextToken(p), ok |-> TRUE]
      ELSE [p |-> p, ok |-> FALSE])

expectPeek(p0, t) ==
  Let(p0, LAMBDA p :
    IF peekTokenIs(p, t)
      THEN [p |-> nextToken(p), ok |-> TRUE]
      ELSE [p |-> peekError(p, t), ok |-> FALSE])

noPrefixParseFnError(p, t) ==
  [p EXCEPT !.errors =
     Append(p.errors, <<"no prefix parse function for ", t, " found">>)]

\* mutation: looks up the current token instead of the peek token
peekPrecedence_Cur(p) ==
  IF p.curToken.Type \in DOMAIN precedences
    THEN precedences[p.curToken.Type] ELSE LOWEST

peekPrecedence(p) ==
  IF p.peekToken.Type \in DOMAIN precedences
    THEN precedences[p.peekToken.Type] ELSE LOWEST

curPrecedence(p) ==
  IF p.curToken.Type \in DOMAIN precedences
    THEN precedences[p.curToken.Type] ELSE LOWEST

(* strconv.ParseInt(s, 0, 64) on a non-empty run of decimal digits: a leading
   '0' selects base 8 for the rest of the text, the value must fit int64 *)
RECURSIVE DigitsValue(_, _)
DigitsValue(s, base) ==
  IF s = <<>> THEN 0
  ELSE DigitsValue(SubSeq(s, 1, Len(s) - 1), base) * base + (s[Len(s)] - 48)

RECURSIVE StripZeros(_)
StripZeros(s) == IF s # <<>> /\ s[1] = 48 THEN StripZeros(Tail(s)) ELSE s

\* the decimal digits of 1<<63 - 1
MaxInt64Digits ==
  <<57,50,50,51,51,55,50,48,51,54,56,53,52,55,55,53,56,48,55>>

RECURSIVE LexLeq(_, _)
LexLeq(s, t) ==
  IF s = <<>> THEN TRUE
  ELSE IF s[1] # t[1] THEN s[1] < t[1]
  ELSE LexLeq(Tail(s), Tail(t))

ParseInt(s) ==
  LET base == IF s[1] = 48 THEN 8 ELSE 10
      body == IF s[1] = 48 THEN Tail(s) ELSE s
      sig == StripZeros(body)
      syntaxOk == \A i \in 1..Len(body) : body[i] - 48 < base
      rangeOk == IF base = 10
                   THEN Len(sig) < 19 \/ (Len(sig) = 19 /\ LexLeq(sig, MaxInt64Digits))
                   ELSE Len(sig) <= 21
  IN IF syntaxOk /\ rangeOk
       THEN [ok |-> TRUE, value |-> DigitsValue(sig, base)]
       ELSE [ok |-> FALSE, value |-> 0]

parseIdentifier(p) ==
  [p |-> p,
   exp |-> [kind |-> "Identifier", Token |-> p.curToken, Value |-> p.curToken.Literal]]

parseIntegerLiteral(p) ==
  Let(ParseInt(p.curToken.Literal), LAMBDA r :
    IF ~r.ok
      THEN [p |-> [p EXCEPT !.errors =
                     Append(p.errors,
                            <<"could not parse ", p.curToken.Literal, " as integer">>)],
            exp |-> NilInterface]
      ELSE [p |-> p,
            exp |-> [kind |-> "IntegerLiteral", Token |-> p.curToken, Value |-> r.value]])

RECURSIVE parseExpression(_, _)
RECURSIVE parsePrefixExpression(_)
RECURSIVE parseInfixExpression(_, _)
RECURSIVE infixLoop(_, _, _)

\* mutation: the operand is parsed at LOWEST instead of PREFIX
parsePrefixExpression_Lowest(p) ==
  Let(parseExpression(nextToken(p), LOWEST), LAMBDA r :
    [p |-> r.p,
     exp |-> [kind |-> "PrefixExpression", Token |-> p.curToken,
              Operator |-> p.curToken.Literal, Right |-> r.exp]])

parsePrefixExpression(p) ==
  Let(parseExpression(nextToken(p), PREFIX), LAMBDA r :
    [p |-> r.p,
     exp |-> [kind |-> "PrefixExpression", Token |-> p.curToken,
              Operator |-> p.curToken.Literal, Right |-> r.exp]])

parseInfixExpression(p, left) ==
  Let(parseExpression(nextToken(p), curPrecedence(p)), LAMBDA r :
    [p |-> r.p,
     exp |-> [kind |-> "InfixExpression", Token |-> p.curToken,
              Operator |-> p.curToken.Literal, Left |-> left, Right |-> r.exp]])

\* mutation: the loop continues on equal precedence (<= instead of <)
infixLoop_Leq(p, precedence, leftExp) ==
  IF ~peekTokenIs(p, SEMICOLON) /\ precedence <= peekPrecedence(p)
    THEN IF p.peekToken.Type \notin DOMAIN infixParseFns
           THEN [p |-> p, exp |-> leftExp]
           ELSE Let(parseInfixExpression(nextToken(p), leftExp), LAMBDA r :
                  infixLoop(r.p, precedence, r.exp))
    ELSE [p |-> p, exp |-> leftExp]

\* the for loop of parseExpression
infixLoop(p, precedence, leftExp) ==
  IF ~peekTokenIs(p, SEMICOLON) /\ precedence < peekPrecedence(p)
    THEN IF p.peekToken.Type \notin DOMAIN infixParseFns
           THEN [p |-> p, exp |-> leftExp]
           ELSE Let(parseInfixExpression(nextToken(p), leftExp), LAMBDA r :
                  infixLoop(r.p, precedence, r.exp))
    ELSE [p |-> p, exp |-> leftExp]

\* the call of the prefix parse function registered for the current token
prefix(p) ==
  CASE prefixParseFns[p.curToken.Type] = "parseIdentifier" -> parseIdentifier(p)
    [] prefixParseFns[p.curToken.Type] = "parseIntegerLiteral" -> parseIntegerLiteral(p)
    [] prefixParseFns[p.curToken.Type] = "parsePrefixExpression" -> parsePrefixExpression(p)

parseExpression(p0, precedence) ==
  Let(p0, LAMBDA p :
    IF p.curToken.Type \notin DOMAIN prefixParseFns
      THEN [p |-> noPrefixParseFnError(p, p.curToken.Type), exp |-> NilInterface]
      ELSE Let(prefix(p), LAMBDA left : infixLoop(left.p, precedence, left.exp)))

parseExpressionStatement(p) ==
  Let(parseExpression(p, LOWEST), LAMBDA r :
    [p |-> IF peekTokenIs(r.p, SEMICOLON) THEN nextToken(r.p) ELSE r.p,
     stmt |-> [kind |-> "ExpressionStatement", Token |-> p.curToken,
               Expression |-> r.exp]])

\* parser.New: empty error list, then two nextToken calls
NewParser(lx) ==
  nextToken(nextToken([l |-> lx, errors |-> <<>>,
                       curToken |-> ZeroToken, peekToken |-> ZeroToken]))

(* ------------------------- ParseProgram as steps ----------------------- *)
\* the parser object as one record, and its write-back
P == [l |-> l, errors |-> errors, curToken |-> curToken, peekToken |-> peekToken]

SetP(q) ==
  /\ l' = q.l
  /\ errors' = q.errors
  /\ curToken' = q.curToken
  /\ peekToken' = q.peekToken

\* mutation: the statement is put in front of the list
AppendStatement_Front(stmts, s) == IF s # NilInterface THEN <<s>> \o stmts ELSE stmts

\* ParseProgram: `if stmt != nil { append }` on the ast.Statement interface
AppendStatement(stmts, s) == IF s # NilInterface THEN Append(stmts, s) ELSE stmts

\* the skip loops may drive the lexer past the end of the input without limit
WithinCap == l.readPosition < Len(l.input) + MaxPastEnd

\* ParseProgram: loop condition fails, the program is returned
ProgramReturn ==
  /\ pc = "loop"
  /\ curTokenIs(P, EOF)
  /\ pc' = "done"
  /\ UNCHANGED <<l, tok, tokStart, curToken, peekToken, errors, program, stmt>>

\* parseLetStatement up to its skip loop
LetStart ==
  /\ pc = "loop"
  /\ ~curTokenIs(P, EOF)
  /\ curTokenIs(P, LET_)
  /\ \E e1 \in {expectPeek(P, IDENT)} :
       IF ~e1.ok
         THEN /\ SetP(e1.p)
              /\ program' = AppendStatement(program, NilLetStatement)
              /\ stmt' = NilInterface
              /\ pc' = "advance"
         ELSE \E e2 \in {expectPeek(e1.p, ASSIGN)} :
                IF ~e2.ok
                  THEN /\ SetP(e2.p)
                       /\ program' = AppendStatement(program, NilLetStatement)
                       /\ stmt' = NilInterface
                       /\ pc' = "advance"
                  ELSE /\ SetP(e2.p)
                       /\ stmt' = [kind |-> "LetStatement", Token |-> curToken,
                                   Name |-> [kind |-> "Identifier",
                                             Token |-> e1.p.curToken,
                                             Value |-> e1.p.curToken.Literal],
                                   Value |-> NilInterface]
                       /\ program' = program
                       /\ pc' = "letSkip"
  /\ UNCHANGED <<tok, tokStart>>

\* one iteration of `for !p.curTokenIs(token.SEMICOLON) { p.nextToken() }`
LetSkip ==
  /\ pc = "letSkip"
  /\ ~curTokenIs(P, SEMICOLON)
  /\ WithinCap
  /\ \E q \in {nextToken(P)} : SetP(q)
  /\ UNCHANGED <<tok, tokStart, program, stmt, pc>>

\* the let statement is returned to ParseProgram and appended
LetReturn ==
  /\ pc = "letSkip"
  /\ curTokenIs(P, SEMICOLON)
  /\ program' = AppendStatement(program, stmt)
  /\ stmt' = NilInterface
  /\ pc' = "advance"
  /\ UNCHANGED <<l, tok, tokStart, curToken, peekToken, errors>>

\* parseReturnStatement up to its skip loop
ReturnStart ==
  /\ pc = "loop"
  /\ ~curTokenIs(P, EOF)
  /\ curTokenIs(P, RETURN)
  /\ stmt' = [kind |-> "ReturnStatement", Token |-> curToken,
              ReturnValue |-> NilInterface]
  /\ \E q \in {nextToken(P)} : SetP(q)
  /\ pc' = "returnSkip"
  /\ UNCHANGED <<tok, tokStart, program>>

ReturnSkip ==
  /\ pc = "returnSkip"
  /\ ~curTokenIs(P, SEMICOLON)
  /\ WithinCap
  /\ \E q \in {nextToken(P)} : SetP(q)
  /\ UNCHANGED <<tok, tokStart, program, stmt, pc>>

ReturnReturn ==
  /\ pc = "returnSkip"
  /\ curTokenIs(P, SEMICOLON)
  /\ program' = AppendStatement(program, stmt)
  /\ stmt' = NilInterface
  /\ pc' = "advance"
  /\ UNCHANGED <<l, tok, tokStart, curToken, peekToken, errors>>

\* parseStatement's default branch, appended by ParseProgram
ExpressionStatement ==
  /\ pc = "loop"
  /\ ~curTokenIs(P, EOF)
  /\ ~curTokenIs(P, LET_)
  /\ ~curTokenIs(P, RETURN)
  /\ \E r \in {parseExpressionStatement(P)} :
       /\ SetP(r.p)
       /\ program' = AppendStatement(program, r.stmt)
  /\ pc' = "advance"
  /\ UNCHANGED <<tok, tokStart, stmt>>

\* the p.nextToken() that ends an iteration of ParseProgram's loop
Advance ==
  /\ pc = "advance"
  /\ \E q \in {nextToken(P)} : SetP(q)
  /\ pc' = "loop"
  /\ UNCHANGED <<tok, tokStart, program, stmt>>

(* ------------------------------ inputs -------------------------------- *)
RECURSIVE Join(_)
\* the words of a source text separated by single spaces
Join(ws) ==
  IF ws = <<>> THEN <<>>
  ELSE IF Len(ws) = 1 THEN ws[1]
  ELSE ws[1] \o <<32>> \o Join(Tail(ws))

wLet == <<108,101,116>>
wReturn == <<114,101,116,117,114,110>>
wAssign == <<61>>
wSemi == <<59>>

\* operator texts by token kind
OpText ==
  [t \in {PLUS, MINUS, SLASH, ASTERISK, EQ, NOT_EQ, LT, GT, BANG} |->
     CASE t = PLUS -> <<43>> [] t = MINUS -> <<45>> [] t = SLASH -> <<47>>
       [] t = ASTERISK -> <<42>> [] t = EQ -> <<61,61>> [] t = NOT_EQ -> <<33,61>>
       [] t = LT -> <<60>> [] t = GT -> <<62>> [] t = BANG -> <<33>>]

InfixOps == DOMAIN infixParseFns
PrefixOps == {BANG, MINUS}

\* operand texts: an identifier or an integer per position
OperandsA == { <<97>>, <<49>> }
OperandsB == { <<98>>, <<50>> }
OperandsC == { <<99>>, <<51>> }

\* expression sources: [p] a op1 b [op2 c] [;]
ExprWords ==
  { pre \o <<a, OpText[op1], b>> \o rest :
      pre \in {<<>>} \cup { <<OpText[q]>> : q \in PrefixOps },
      a \in OperandsA, op1 \in InfixOps, b \in OperandsB,
      rest \in {<<>>} \cup { <<OpText[op2], c>> : op2 \in InfixOps, c \in OperandsC } }

ExprSources ==
  { Join(w) \o semi : w \in ExprWords, semi \in {<<>>, wSemi} }

\* statement sources, well-formed and not
Statements ==
  { Join(<<wLet, <<120>>, wAssign, <<53>>>>) \o wSemi,                 \* let x = 5;
    Join(<<wLet, <<121>>, wAssign, <<49,48>>, <<43>>, <<97>>>>) \o wSemi, \* let y = 10 + a;
    Join(<<wLet, <<120>>, <<53>>>>) \o wSemi,                          \* let x 5;
    Join(<<wLet, wAssign, <<49,48>>>>) \o wSemi,                       \* let = 10;
    Join(<<wLet, <<120>>, wAssign, <<53>>>>),                          \* let x = 5
    Join(<<wReturn, <<53>>>>) \o wSemi,                                \* return 5;
    Join(<<wReturn, <<97>>>>),                                         \* return a
    <<97>> \o wSemi,                                                   \* a;
    <<64>> }                                                           \* @

StatementSeqs == UNION { [1..n -> Statements] : n \in 0..MaxStmts }

ProgramSources == { Join(ss) : ss \in StatementSeqs }

\* one-character texts used below
wX == <<120>>
wAt == <<64>>

\* sources with a token that has no prefix parse function where an expression
\* is expected, a return statement with an infix expression, and integer texts
ExtraSources ==
  { Join(<<wLet, wX, wAssign, wAt>>) \o wSemi,                        \* let x = @;
    Join(<<wLet, wX, wAssign>>) \o <<32>> \o wSemi,                   \* let x = ;
    Join(<<wReturn, wAt>>) \o wSemi,                                  \* return @;
    Join(<<wReturn, wSemi>>),                                         \* return ;
    Join(<<wReturn, <<49,48>>, <<43>>, <<97>>>>) \o wSemi,            \* return 10 + a;
    <<48>>,                                                           \* 0
    <<49,48>>,                                                        \* 10
    <<48,49,48>>,                                                     \* 010
    <<48,56>>,                                                        \* 08
    <<57,50,50,51,51,55,50,48,51,54,56,53,52,55,55,53,56,48,56>> }    \* 1<<63

ParseInputs == ExprSources \cup ProgramSources \cup ExtraSources

\* bytes the lexer is driven over on its own: NUL, space, ! 1 ; = @ a and 0xE9
LexAlphabet == {0, 32, 33, 49, 59, 61, 64, 97, 233}

LexInputs == UNION { [1..n -> LexAlphabet] : n \in 0..MaxLen }

(* --------------------------- specifications --------------------------- *)
ParseInit ==
  \E src \in ParseInputs :
    LET q == NewParser(New(src))
    IN /\ l = q.l
       /\ errors = q.errors
       /\ curToken = q.curToken
       /\ peekToken = q.peekToken
       /\ program = <<>>
       /\ stmt = NilInterface
       /\ pc = "loop"
       /\ tok = ZeroToken
       /\ tokStart = 0

ParseNext ==
  \/ ProgramReturn
  \/ LetStart
  \/ LetSkip
  \/ LetReturn
  \/ ReturnStart
  \/ ReturnSkip
  \/ ReturnReturn
  \/ ExpressionStatement
  \/ Advance

ParseSpec == ParseInit /\ [][ParseNext]_vars

\* ParseProgram is one synchronous call: it keeps running while it can
FairParseSpec == ParseSpec /\ WF_vars(ParseNext)

\* a caller pulling tokens from a lexer, as the REPL does
CallNextToken ==
  /\ pc = "lex"
  /\ ~l.panicked
  /\ l.readPosition < Len(l.input) + MaxPastEnd
  /\ \E r \in {NextToken(l)} :
       /\ l' = r.l
       /\ tok' = IF r.l.panicked THEN tok ELSE r.tok
       /\ tokStart' = IF r.l.panicked THEN tokStart ELSE r.start
  /\ UNCHANGED <<curToken, peekToken, errors, program, stmt, pc>>

LexInit ==
  /\ \E src \in LexInputs : l = New(src)
  /\ tok = ZeroToken
  /\ tokStart = 0
  /\ curToken = ZeroToken
  /\ peekToken = ZeroToken
  /\ errors = <<>>
  /\ program = <<>>
  /\ stmt = NilInterface
  /\ pc = "lex"

LexNext == CallNextToken

LexSpec == LexInit /\ [][LexNext]_vars

(* ------------------------------ ast ----------------------------------- *)
\* TokenLiteral() of a node that is not a nil pointer
TokenLiteral(n) == n.Token.Literal

(* ------------------------ expected syntax trees ----------------------- *)
\* the node a one-character operand text stands for
ExpectedOperand(w) ==
  IF w[1] \in 48..57
    THEN [kind |-> "IntegerLiteral", Token |-> [Type |-> INT, Literal |-> w],
          Value |-> w[1] - 48]
    ELSE [kind |-> "Identifier", Token |-> [Type |-> IDENT, Literal |-> w],
          Value |-> w]

ExpectedInfix(op, left, right) ==
  [kind |-> "InfixExpression", Token |-> [Type |-> op, Literal |-> OpText[op]],
   Operator |-> OpText[op], Left |-> left, Right |-> right]

ExpectedPrefix(op, right) ==
  [kind |-> "PrefixExpression", Token |-> [Type |-> op, Literal |-> OpText[op]],
   Operator |-> OpText[op], Right |-> right]

\* a program that is the single expression statement e
IsSingleExpression(e) ==
  /\ Len(program) = 1
  /\ program[1].kind = "ExpressionStatement"
  /\ program[1].Expression = e

Semis == {<<>>, wSemi}

(* ------------------------------ claims -------------------------------- *)

\* C1: for every finite source text ParseProgram consumes tokens until
\* end-of-input and returns, also when a let or return statement is not
\* followed by `;` before the end of the input: a statement stops pulling
\* tokens once the current token is EOF, and ParseProgram returns.
C1_Terminates ==
  /\ [][ (pc \in {"letSkip", "returnSkip"} /\ curToken.Type = EOF) =>
           pc' \notin {"letSkip", "returnSkip"} ]_vars
  /\ <>(pc = "done")

\* the expression parseExpression(LOWEST) builds from the source text e
ExprOf(e) == parseExpression(NewParser(New(e)), LOWEST).exp

LetSource(id, e) == Join(<<wLet, id, wAssign, e>>) \o wSemi

\* the well-formed let statements among Statements: identifier and expression
LetCases ==
  { [id |-> <<120>>, e |-> <<53>>],
    [id |-> <<121>>, e |-> Join(<<<<49,48>>, <<43>>, <<97>>>>)] }

\* C2: for `let IDENT = EXPR;` ParseProgram yields one LetStatement whose Name
\* is IDENT's literal and whose Value is EXPR parsed at lowest precedence;
\* `let x = 5;` yields name "x" and IntegerLiteral 5.
C2_LetValue ==
  \A c \in LetCases :
    (pc = "done" /\ l.input = LetSource(c.id, c.e)) =>
      /\ Len(program) = 1
      /\ program[1].kind = "LetStatement"
      /\ "Name" \in DOMAIN program[1]
      /\ program[1].Name.Value = c.id
      /\ program[1].Value = ExprOf(c.e)
      /\ (c.e = <<53>> =>
            /\ program[1].Value.kind = "IntegerLiteral"
            /\ program[1].Value.Value = 5)

LetCaseSeqs == UNION { [1..n -> LetCases] : n \in 0..MaxStmts }

LetSeqSource(cs) == Join([i \in 1..Len(cs) |-> LetSource(cs[i].id, cs[i].e)])

\* C3: for N well-formed let statements each ended by `;` ParseProgram returns
\* exactly N statements in source order, each a LetStatement with TokenLiteral
\* "let" and Name.Value and Name.TokenLiteral equal to the identifier, and the
\* error list is empty.
C3_LetStatements ==
  \A cs \in LetCaseSeqs :
    (pc = "done" /\ l.input = LetSeqSource(cs)) =>
      /\ Len(program) = Len(cs)
      /\ errors = <<>>
      /\ \A i \in 1..Len(cs) :
           /\ program[i].kind = "LetStatement"
           /\ "Name" \in DOMAIN program[i]
           /\ TokenLiteral(program[i]) = wLet
           /\ program[i].Name.Value = cs[i].id
           /\ TokenLiteral(program[i].Name) = cs[i].id

C3_Witness ==
  /\ pc = "done"
  /\ l.input = LetSeqSource(<<[id |-> <<120>>, e |-> <<53>>],
                              [id |-> <<121>>, e |-> Join(<<<<49,48>>, <<43>>, <<97>>>>)]>>)
  /\ Len(program) = 2
  /\ program[2].Name.Value = <<121>>

\* C4: when op2 has strictly higher precedence than op1, `a op1 b op2 c`
\* parses to the infix node op1 with left child a and right child (b op2 c).
C4_Precedence ==
  \A a \in OperandsA, b \in OperandsB, c \in OperandsC,
     op1 \in InfixOps, op2 \in InfixOps, semi \in Semis :
    (/\ pc = "done"
     /\ precedences[op2] > precedences[op1]
     /\ l.input = Join(<<a, OpText[op1], b, OpText[op2], c>>) \o semi) =>
      IsSingleExpression(
        ExpectedInfix(op1, ExpectedOperand(a),
                      ExpectedInfix(op2, ExpectedOperand(b), ExpectedOperand(c))))

\* 1 + 2 * 3
C4_Witness ==
  /\ pc = "done"
  /\ l.input = <<49,32,43,32,50,32,42,32,51>>
  /\ Len(program) = 1
  /\ program[1].Expression.Operator = <<43>>
  /\ program[1].Expression.Right.Operator = <<42>>

\* C5: for infix operators of equal precedence `a op1 b op2 c` parses to
\* ((a op1 b) op2 c), never (a op1 (b op2 c)).
C5_LeftAssoc ==
  \A a \in OperandsA, b \in OperandsB, c \in OperandsC,
     op1 \in InfixOps, op2 \in InfixOps, semi \in Semis :
    (/\ pc = "done"
     /\ precedences[op2] = precedences[op1]
     /\ l.input = Join(<<a, OpText[op1], b, OpText[op2], c>>) \o semi) =>
      IsSingleExpression(
        ExpectedInfix(op2,
                      ExpectedInfix(op1, ExpectedOperand(a), ExpectedOperand(b)),
                      ExpectedOperand(c)))

\* a - b - c
C5_Witness ==
  /\ pc = "done"
  /\ l.input = <<97,32,45,32,98,32,45,32,99>>
  /\ Len(program) = 1
  /\ program[1].Expression.Left.kind = "InfixExpression"
  /\ program[1].Expression.Right.kind = "Identifier"

\* C6: for a prefix operator p and any infix operator op, `p a op b` parses to
\* the infix node op with left child PrefixExpression(p, a) and right child b.
C6_PrefixBinds ==
  \A q \in PrefixOps, a \in OperandsA, b \in OperandsB,
     op \in InfixOps, semi \in Semis :
    (/\ pc = "done"
     /\ l.input = Join(<<OpText[q], a, OpText[op], b>>) \o semi) =>
      IsSingleExpression(
        ExpectedInfix(op, ExpectedPrefix(q, ExpectedOperand(a)), ExpectedOperand(b)))

\* - a * b
C6_Witness ==
  /\ pc = "done"
  /\ l.input = <<45,32,97,32,42,32,98>>
  /\ Len(program) = 1
  /\ program[1].Expression.Operator = <<42>>
  /\ program[1].Expression.Left.kind = "PrefixExpression"

\* the input byte at 0-based index i, the NUL sentinel past the end
CharAt(i) == IF i < Len(l.input) THEN l.input[i + 1] ELSE 0

EofToken == [Type |-> EOF, Literal |-> <<>>]

\* C7: once NextToken has returned EOF because the cursor is past the last
\* character, every later call returns EOF with an empty literal, returns no
\* other token and does not panic; a call made with the cursor past the last
\* character returns EOF and does not panic.
C7_EofIdempotent ==
  [][ /\ (tok.Type = EOF /\ tokStart >= Len(l.input)) =>
           (tok' = EofToken /\ tokStart' >= Len(l.input) /\ ~l'.panicked)
      /\ (l.position >= Len(l.input)) =>
           (tok' = EofToken /\ ~l'.panicked) ]_vars

\* a second EOF after a non-empty input
C7_Witness ==
  /\ tok = EofToken
  /\ Len(l.input) > 0
  /\ tokStart > Len(l.input)
  /\ ~l.panicked

\* what a NextToken call that started at s on character c, followed by n, did
TwoCharStep(s, c, n, t, pos) ==
  /\ (c = 61 /\ n = 61) => (t = [Type |-> EQ, Literal |-> <<61, 61>>] /\ pos = s + 2)
  /\ (c = 33 /\ n = 61) => (t = [Type |-> NOT_EQ, Literal |-> <<33, 61>>] /\ pos = s + 2)
  /\ (c = 61 /\ n # 61) => (t = [Type |-> ASSIGN, Literal |-> <<61>>] /\ pos = s + 1)
  /\ (c = 33 /\ n # 61) => (t = [Type |-> BANG, Literal |-> <<33>>] /\ pos = s + 1)
  /\ (t.Type = EQ) => (c = 61 /\ n = 61)
  /\ (t.Type = NOT_EQ) => (c = 33 /\ n = 61)

\* C8: on `=` or `!` followed by `=` NextToken returns EQ or NOT_EQ with the
\* two-character literal and consumes two characters; followed by anything
\* else (or the end of input) it returns ASSIGN or BANG with a one-character
\* literal and consumes one character; EQ and NOT_EQ arise in no other way.
C8_TwoCharOperators ==
  [][ TwoCharStep(tokStart', CharAt(tokStart'), CharAt(tokStart' + 1),
                  tok', l'.position) ]_vars

\* `==` lexed after a space
C8_Witness ==
  /\ tok = [Type |-> EQ, Literal |-> <<61, 61>>]
  /\ tokStart = 1
  /\ l.position = 3

\* a byte that is no whitespace, operator, delimiter, letter, underscore or digit
IsOtherByte(c) ==
  /\ ~isSpace(c)
  /\ c \notin SingleChars \cup {61, 33}
  /\ ~isLetter(c)
  /\ ~isDigit(c)

\* C9: any byte that is not whitespace, not an operator or delimiter, not a
\* letter or underscore and not a digit is emitted as one ILLEGAL token whose
\* literal is that single byte, and the lexer advances past it by exactly one
\* character; the input `@` yields ILLEGAL("@") and then EOF.
C9_IllegalByte ==
  [][ /\ (tokStart' < Len(l.input) /\ IsOtherByte(CharAt(tokStart'))) =>
           /\ tok' = [Type |-> ILLEGAL, Literal |-> <<CharAt(tokStart')>>]
           /\ l'.position = tokStart' + 1
      /\ (l.input = <<64>> /\ l.position = 0) =>
           tok' = [Type |-> ILLEGAL, Literal |-> <<64>>]
      /\ (l.input = <<64>> /\ l.position = 1) => tok' = EofToken ]_vars

PeekMsg(expected, got) ==
  <<"expected next token to be ", expected, ", got ", got, " instead">>

\* a statement entry that binds a name
IsBinding(s) == s.kind = "LetStatement" /\ "Name" \in DOMAIN s

\* the statements added by a step hold no binding
AddsNoBinding(before, after) ==
  /\ Len(after) >= Len(before)
  /\ SubSeq(after, 1, Len(before)) = before
  /\ \A i \in 1..Len(after) : i > Len(before) => ~IsBinding(after[i])

\* sources made of let statements that miss `=` or the identifier
BrokenLets ==
  { Join(<<wLet, <<120>>, <<53>>>>) \o wSemi, Join(<<wLet, wAssign, <<49,48>>>>) \o wSemi }

BrokenLetSources ==
  { Join(ss) : ss \in UNION { [1..n -> BrokenLets] : n \in 1..MaxStmts } }

NoPrefixMsg(kind) == <<"no prefix parse function for ", kind, " found">>

\* sources whose expression position holds a token of the given kind, which
\* has no prefix parse function
NoPrefixCases ==
  { [src |-> wAt, kind |-> ILLEGAL],
    [src |-> wSemi, kind |-> SEMICOLON],
    [src |-> Join(<<wLet, wX, wAssign, wAt>>) \o wSemi, kind |-> ILLEGAL],
    [src |-> Join(<<wLet, wX, wAssign>>) \o <<32>> \o wSemi, kind |-> SEMICOLON],
    [src |-> Join(<<wReturn, wAt>>) \o wSemi, kind |-> ILLEGAL],
    [src |-> Join(<<wReturn, wSemi>>), kind |-> SEMICOLON] }

\* C11: no error is dropped: whenever a token kind without a prefix parse
\* function stands in an expression position, also as the right-hand side of a
\* let statement or the expression of a return statement, the error list holds
\* an entry for it after ParseProgram.
C11_NoErrorDropped ==
  \A c \in NoPrefixCases :
    (pc = "done" /\ l.input = c.src) =>
      \E i \in 1..Len(errors) : errors[i] = NoPrefixMsg(c.kind)

\* C12: after ParseProgram every entry of Program.Statements is a non-nil
\* statement node: a statement whose parse function returned nil contributes
\* no entry, so TokenLiteral() can be called on every entry.
C12_NoNilStatement ==
  pc = "done" =>
    \A i \in 1..Len(program) :
      /\ program[i] # NilInterface
      /\ program[i] # NilLetStatement
      /\ "Token" \in DOMAIN program[i]

\* the digit runs among the sources
IntTexts ==
  { <<48>>, <<49,48>>, <<48,49,48>>, <<48,56>>,
    <<57,50,50,51,51,55,50,48,51,54,56,53,52,55,55,53,56,48,56>> }

\* the base-10 value of the digit run s fits a signed 64-bit integer
FitsInt64(s) ==
  \/ Len(StripZeros(s)) < 19
  \/ Len(StripZeros(s)) = 19 /\ LexLeq(StripZeros(s), MaxInt64Digits)

\* C13: for an INT token, a maximal run of decimal digits, parseIntegerLiteral
\* yields an IntegerLiteral whose Value is the base-10 value of the text when
\* it fits int64 (`010` is 10, `08` is 8); when it does not fit, exactly one
\* error is appended and no node is produced.
C13_DecimalValue ==
  \A s \in IntTexts :
    (pc = "done" /\ l.input = s) =>
      IF FitsInt64(s)
        THEN /\ errors = <<>>
             /\ IsSingleExpression(
                  [kind |-> "IntegerLiteral", Token |-> [Type |-> INT, Literal |-> s],
                   Value |-> DigitsValue(s, 10)])
        ELSE /\ Len(errors) = 1
             /\ IsSingleExpression(NilInterface)

ReturnSource(e) == Join(<<wReturn, e>>) \o wSemi

\* the expressions of the return statements among the sources
ReturnCases == { <<53>>, Join(<<<<49,48>>, <<43>>, <<97>>>>) }

\* C14: for `return EXPR;` ParseProgram yields a ReturnStatement whose
\* ReturnValue is EXPR parsed at lowest precedence, and after the statement
\* the current token is the trailing `;`.
C14_ReturnValue ==
  \A e \in ReturnCases :
    (l.input = ReturnSource(e)) =>
      /\ (pc = "advance" /\ Len(program) = 1) => curToken.Type = SEMICOLON
      /\ (pc = "done") =>
           /\ Len(program) = 1
           /\ program[1].kind = "ReturnStatement"
           /\ program[1].ReturnValue = ExprOf(e)

\* C15: NextToken returns EOF only when the cursor has passed the last
\* character of the input: for every input, also one with a NUL byte before
\* its end, no EOF is returned while unread characters remain, and every token
\* after a returned EOF is EOF again.
C15_EofOnlyAtEnd ==
  [][ /\ (tok'.Type = EOF) => (tokStart' >= Len(l.input))
      /\ (tok.Type = EOF) => (tok'.Type = EOF) ]_vars

\* the lexer as New builds it before its first readChar
FreshLexer(input) ==
  [input |-> input, position |-> 0, readPosition |-> 0, ch |-> 0, panicked |-> FALSE]

\* C16: after New and any number of NextToken calls readPosition is
\* position + 1, the current character is input[position] when position is
\* inside the input and NUL otherwise, position never decreases, and a
\* readChar advances position and readPosition by exactly one (the first
\* readChar, in New, leaves position at 0).
C16_CursorInvariant ==
  /\ [](/\ l.readPosition = l.position + 1
        /\ l.ch = CharAt(l.position)
        /\ readChar(l).position = l.position + 1
        /\ readChar(l).readPosition = l.readPosition + 1
        /\ readChar(FreshLexer(l.input)).position = 0
        /\ readChar(FreshLexer(l.input)).readPosition = 1)
  /\ [][l'.position >= l.position]_vars

\* the cursor two past the end of a two-byte input or longer
C16_Witness ==
  /\ Len(l.input) >= 2
  /\ l.position = Len(l.input) + 2
  /\ l.readPosition = l.position + 1
  /\ l.ch = 0

====
